---- MODULE Spec2Model ----
(***************************************************************************)
(* State-machine model of evnsq::Client (apps/evnsq/client.cc): the pool   *)
(* of NSQConn objects split into connecting_conns_ (a map keyed by the     *)
(* remote address) and conns_ (a vector), the nsqlookupd poller and the    *)
(* Close() protocol, all run on one EventLoop thread.                      *)
(***************************************************************************)
EXTENDS Integers, Sequences, FiniteSets, TLC

\* ------------------------------------------------------------------ bounds
MaxConns == 2       \* NSQConn objects ever created
MaxActive == 2      \* length of conns_
MaxList == 2        \* addresses in one ConnectToNSQDs call / one lookupd response

\* --------------------------------------------------------------- constants
Addrs == {"a:4150", "b:4150"}
Lookupds == {"http://127.0.0.1:4161/lookup?topic=test"}
Types == {"kConsumer", "kProducer"}
Status == {"kDisconnected", "kConnecting", "kConnected", "kReady"}

\* A default-constructed (empty) ConnPtr, as std::map::operator[] inserts it.
NullConn == 0

VARIABLES
    type_,                 \* kConsumer / kProducer, fixed at construction
    closing_,              \* set by Close()
    connecting_conns_,     \* std::map<std::string, ConnPtr>
    conns_,                \* std::vector<ConnPtr>
    lookupd_timers_,       \* the periodic timers held, by the URL each queries
    close_fn_,             \* TRUE iff a close callback is registered
    ready_to_publish_fn_,  \* TRUE iff a ready-to-publish callback is registered
    nsqconns,              \* every NSQConn created so far, by identity 1..Len
    inflight,              \* the URLs whose HTTP request is not yet answered
    queue,                 \* functors queued with EventLoop::QueueInLoop
    crashed,               \* the process has aborted
    close_calls,           \* history: number of close_fn_() invocations so far
    out                    \* history: the requests and callbacks of the last step

vars == <<type_, closing_, connecting_conns_, conns_, lookupd_timers_, close_fn_,
          ready_to_publish_fn_, nsqconns, inflight, queue, crashed, close_calls,
          out>>

\* ----------------------------------------------------------------- helpers
Range(s) == {s[i] : i \in 1..Len(s)}

Count(s, x) == Cardinality({i \in 1..Len(s) : s[i] = x})

SeqsUpTo(S, n) == UNION {[1..k -> S] : k \in 0..n}

\* std::map::erase(key)
MapErase(m, k) == [x \in (DOMAIN m) \ {k} |-> m[x]]

\* std::map::operator[](key) = v
MapPut(m, k, v) == [x \in (DOMAIN m) \cup {k} |-> IF x = k THEN v ELSE m[x]]

EmptyMap == [x \in {} |-> NullConn]

\* the for loop of lines 161-166 / 208-214: erase the first element equal to c
RECURSIVE EraseFirst(_, _)
EraseFirst(s, c) ==
    IF s = <<>> THEN <<>>
    ELSE IF Head(s) = c THEN Tail(s)
    ELSE <<Head(s)>> \o EraseFirst(Tail(s), c)

\* ------------------------------------------------------ NSQConn (interface)
\* new NSQConn(this, option_) followed by Connect(addr): the object exists, is
\* bound to addr and is connecting.
NewNSQConn(addr) == [status |-> "kConnecting", remote_addr |-> addr, closing |-> FALSE]

\* an NSQConn whose last ConnPtr is gone
FreedNSQConn == [status |-> "kDisconnected", remote_addr |-> "", closing |-> FALSE]

\* NSQConn::Close(): the close is requested; Disconnected is reported later.
NSQConnClose(o) == IF o.status = "kDisconnected" THEN o ELSE [o EXCEPT !.closing = TRUE]

\* NSQConn c sets its status to st before calling the connection callback; a
\* reported Disconnected fulfils the close request.
NSQConnReport(objs, c, st) ==
    [objs EXCEPT ![c].status = st,
                 ![c].closing = IF st = "kDisconnected" THEN FALSE ELSE @]

\* The status changes an NSQConn may report to its connection callback.
CanReport(o, st) ==
    /\ o.status # "kDisconnected"
    /\ o.closing => st = "kDisconnected"
    /\ st = "kConnected" => o.status = "kConnecting"
    /\ st = "kReady" => o.status = "kConnected" /\ type_ = "kConsumer"

\* ------------------------------------------------------------------ Client
\* Client::ConnectToNSQD, on the pair (connecting_conns_, nsqconns)
ConnectToNSQD(cc, objs, addr) ==
    [cc   |-> MapPut(cc, addr, Len(objs) + 1),
     objs |-> Append(objs, NewNSQConn(addr))]

\* Client::ConnectToNSQDs(vector): ConnectToNSQD on each element in order
RECURSIVE ConnectToNSQDsLoop(_, _, _)
ConnectToNSQDsLoop(cc, objs, addrs) ==
    IF addrs = <<>> THEN [cc |-> cc, objs |-> objs]
    ELSE LET r == ConnectToNSQD(cc, objs, Head(addrs))
         IN  ConnectToNSQDsLoop(r.cc, r.objs, Tail(addrs))

\* IsKnownNSQDAddress without the connecting_conns_ lookup of lines 187-189
IsKnownNSQDAddressActiveOnly(cc, conns, objs, addr) ==
    \E i \in 1..Len(conns) : objs[conns[i]].remote_addr = addr

\* IsKnownNSQDAddress without the conns_ loop of lines 191-195
IsKnownNSQDAddressConnectingOnly(cc, conns, objs, addr) ==
    addr \in DOMAIN cc

\* Client::IsKnownNSQDAddress
IsKnownNSQDAddress(cc, conns, objs, addr) ==
    \/ addr \in DOMAIN cc
    \/ \E i \in 1..Len(conns) : objs[conns[i]].remote_addr = addr

\* the producers loop of Client::HandleLoopkupdHTTPResponse (lines 121-130);
\* done accumulates the addresses handed to ConnectToNSQD
RECURSIVE ProducersLoop(_, _, _, _, _)
ProducersLoop(cc, conns, objs, producers, done) ==
    IF producers = <<>> THEN [cc |-> cc, objs |-> objs, connects |-> done]
    ELSE LET addr == Head(producers)
         IN  IF ~IsKnownNSQDAddress(cc, conns, objs, addr)
             THEN LET r == ConnectToNSQD(cc, objs, addr)
                  IN  ProducersLoop(r.cc, conns, r.objs, Tail(producers),
                                    Append(done, addr))
             ELSE ProducersLoop(cc, conns, objs, Tail(producers), done)

\* Client::MoveToConnectingList
MoveToConnectingList(cc, conns, c, addr) ==
    LET cc1 == IF addr \in DOMAIN cc THEN cc ELSE MapPut(cc, addr, NullConn)
    IN  IF cc1[addr] # NullConn
        THEN [cc |-> cc1, conns |-> conns]
        ELSE IF c \in Range(conns)
             THEN [cc |-> MapPut(cc1, addr, c), conns |-> EraseFirst(conns, c)]
             ELSE [cc |-> cc1, conns |-> conns]

\* OnConnected with the Subscribe of line 140 issued for Ready as well
OnConnectedSubscribesAgain(cc, conns, objs, c) ==
    LET addr == objs[c].remote_addr
        base == [cc |-> MapErase(cc, addr), conns |-> Append(conns, c), objs |-> objs,
                 subs |-> 0, ready |-> 0, closed |-> 0, check |-> FALSE]
    IN  IF type_ = "kConsumer"
        THEN [base EXCEPT !.subs = IF objs[c].status = "kConnected" THEN 2 ELSE 1]
        ELSE [base EXCEPT !.objs = [objs EXCEPT ![c].status = "kReady"],
                          !.ready = IF ready_to_publish_fn_ THEN 1 ELSE 0]

\* OnConnected without the erase of line 136
OnConnectedKeepsConnecting(cc, conns, objs, c) ==
    LET base == [cc |-> cc, conns |-> Append(conns, c), objs |-> objs,
                 subs |-> 0, ready |-> 0, closed |-> 0, check |-> FALSE]
    IN  IF objs[c].status = "kConnected"
        THEN IF type_ = "kConsumer"
             THEN [base EXCEPT !.subs = 1]
             ELSE [base EXCEPT !.objs = [objs EXCEPT ![c].status = "kReady"],
                               !.ready = IF ready_to_publish_fn_ THEN 1 ELSE 0]
        ELSE base

\* Client::OnConnection, lines 134-154: the connection reports Connected or Ready
OnConnected(cc, conns, objs, c) ==
    LET addr   == objs[c].remote_addr
        conns1 == Append(conns, c)
        cc1    == MapErase(cc, addr)
        base   == [cc |-> cc1, conns |-> conns1, objs |-> objs,
                   subs |-> 0, ready |-> 0, closed |-> 0, check |-> FALSE]
    IN  IF objs[c].status = "kConnected"
        THEN IF type_ = "kConsumer"
             THEN [base EXCEPT !.subs = 1]
             ELSE [base EXCEPT !.objs = [objs EXCEPT ![c].status = "kReady"],
                               !.ready = IF ready_to_publish_fn_ THEN 1 ELSE 0]
        ELSE base

\* Client::OnConnection, lines 157-183: the connection reports Disconnected
OnDisconnected(cc, conns, objs, c) ==
    LET conns1 == EraseFirst(conns, c)
        cc1    == MapErase(cc, objs[c].remote_addr)
    IN  [cc |-> cc1, conns |-> conns1, objs |-> objs, subs |-> 0, ready |-> 0,
         closed |-> IF DOMAIN cc1 = {} /\ conns1 = <<>> /\ close_fn_ THEN 1 ELSE 0,
         check |-> TRUE]

\* Client::OnConnection
OnConnection(cc, conns, objs, c) ==
    IF objs[c].status \in {"kConnected", "kReady"}
    THEN OnConnected(cc, conns, objs, c)
    ELSE IF objs[c].status = "kConnecting"
    THEN LET r == MoveToConnectingList(cc, conns, c, objs[c].remote_addr)
         IN  [cc |-> r.cc, conns |-> r.conns, objs |-> objs,
              subs |-> 0, ready |-> 0, closed |-> 0, check |-> FALSE]
    ELSE OnDisconnected(cc, conns, objs, c)

\* ------------------------------------------------------------ observations
\* the NSQConn objects the pool holds
Held(cc, conns) == (Range(conns) \cup {cc[a] : a \in DOMAIN cc}) \ {NullConn}

\* what the last step did: the Subscribe requests and ready_to_publish_fn_
\* calls it made and, when it ran the producers loop of a lookupd response
\* (polled), the addresses the response listed and the addresses the loop
\* handed to ConnectToNSQD
Out(subs, ready, polled, listed, connects) ==
    [subs |-> subs, ready |-> ready, polled |-> polled, listed |-> listed,
     connects |-> connects]

Quiet == Out(0, 0, FALSE, {}, <<>>)

\* -------------------------------------------------------------------- Init
Init ==
    /\ type_ \in Types
    /\ closing_ = FALSE
    /\ connecting_conns_ = EmptyMap
    /\ conns_ = <<>>
    /\ lookupd_timers_ = {}
    /\ close_fn_ = TRUE
    /\ ready_to_publish_fn_ = (type_ = "kProducer")
    /\ nsqconns = <<>>
    /\ inflight = {}
    /\ queue = <<>>
    /\ crashed = FALSE
    /\ close_calls = 0
    /\ out = Quiet

\* ----------------------------------------------------------------- actions
\* the caller invokes Client::ConnectToNSQD(addr)
CallConnectToNSQD(addr) ==
    /\ ~crashed
    /\ Len(nsqconns) < MaxConns
    /\ LET r == ConnectToNSQD(connecting_conns_, nsqconns, addr)
       IN  /\ connecting_conns_' = r.cc
           /\ nsqconns' = r.objs
    /\ out' = Quiet
    /\ UNCHANGED <<type_, closing_, conns_, lookupd_timers_, close_fn_,
                   ready_to_publish_fn_, inflight, queue, crashed, close_calls>>

\* the caller invokes Client::ConnectToNSQDs(addrs)
CallConnectToNSQDs(addrs) ==
    /\ ~crashed
    /\ Len(nsqconns) + Len(addrs) <= MaxConns
    /\ LET r == ConnectToNSQDsLoop(connecting_conns_, nsqconns, addrs)
       IN  /\ connecting_conns_' = r.cc
           /\ nsqconns' = r.objs
    /\ out' = Quiet
    /\ UNCHANGED <<type_, closing_, conns_, lookupd_timers_, close_fn_,
                   ready_to_publish_fn_, inflight, queue, crashed, close_calls>>

\* the query functor f of ConnectToLookupd (lines 44-48) sends a request to
\* url. The request gives up after one second (line 46), before the timer
\* fires again: one request per URL is awaiting its response.
Query(url) == inflight \cup {url}

\* the caller invokes Client::ConnectToLookupd(url), once per URL: the first
\* query is issued at once (RunInLoop on the loop thread) and the periodic
\* timer is kept
CallConnectToLookupd(url) ==
    /\ ~crashed
    /\ url \notin lookupd_timers_
    /\ url \notin inflight
    /\ inflight' = Query(url)
    /\ lookupd_timers_' = lookupd_timers_ \cup {url}
    /\ out' = Quiet
    /\ UNCHANGED <<type_, closing_, connecting_conns_, conns_, close_fn_,
                   ready_to_publish_fn_, nsqconns, queue, crashed, close_calls>>

\* the timer of lookupd_timers_ for url fires and runs the query functor f
LookupdTimer(url) ==
    /\ ~crashed
    /\ url \in lookupd_timers_
    /\ url \notin inflight
    /\ inflight' = Query(url)
    /\ out' = Quiet
    /\ UNCHANGED <<type_, closing_, connecting_conns_, conns_, lookupd_timers_,
                   close_fn_, ready_to_publish_fn_, nsqconns, queue, crashed,
                   close_calls>>

\* the responses nsqlookupd (or the HTTP client, on failure) can deliver
Responses ==
    {[http_code |-> 500, wellformed |-> TRUE, status_code |-> 200, producers |-> <<>>],
     [http_code |-> 200, wellformed |-> FALSE, status_code |-> 200, producers |-> <<>>],
     [http_code |-> 200, wellformed |-> TRUE, status_code |-> 500, producers |-> <<>>]}
    \cup {[http_code |-> 200, wellformed |-> TRUE, status_code |-> 200, producers |-> p] :
            p \in SeqsUpTo(Addrs, MaxList)}

ResponseKind(resp) ==
    IF resp.http_code # 200 THEN "http_error"
    ELSE IF ~resp.wellformed THEN "malformed"
    ELSE IF resp.status_code # 200 THEN "status_error"
    ELSE "ok"

\* Client::HandleLoopkupdHTTPResponse on the response resp to the request
\* sent to url. A body rapidjson cannot read as the expected envelope is
\* accessed unchecked (lines 106, 120-124): the handler either aborts the
\* process or falls through without effect.
HandleLoopkupdHTTPResponse(url, resp) ==
    /\ ~crashed
    /\ url \in inflight
    /\ inflight' = inflight \ {url}
    /\ IF ResponseKind(resp) = "ok"
       THEN LET r == ProducersLoop(connecting_conns_, conns_, nsqconns,
                                   resp.producers, <<>>)
            IN  /\ Len(r.objs) <= MaxConns
                /\ connecting_conns_' = r.cc
                /\ nsqconns' = r.objs
                /\ crashed' = crashed
                /\ out' = Out(0, 0, TRUE, Range(resp.producers), r.connects)
       ELSE /\ UNCHANGED <<connecting_conns_, nsqconns>>
            /\ crashed' \in (IF ResponseKind(resp) = "malformed" THEN {TRUE, FALSE}
                             ELSE {FALSE})
            /\ out' = Quiet
    /\ UNCHANGED <<type_, closing_, conns_, lookupd_timers_, close_fn_,
                   ready_to_publish_fn_, queue, close_calls>>

\* the loops of the functor queued by Close() (lines 70-76): the connections
\* Close() is called on
CloseTargets(cc, conns) == Range(conns) \cup {cc[a] : a \in DOMAIN cc}

\* Close() with the functor of lines 69-82 run inline (RunInLoop on the loop
\* thread) instead of queued
CloseRunsTeardownInline ==
    /\ ~crashed
    /\ ~closing_
    /\ closing_' = TRUE
    /\ LET targets == CloseTargets(connecting_conns_, conns_)
       IN  nsqconns' = [c \in 1..Len(nsqconns) |->
                          IF c \in targets THEN NSQConnClose(nsqconns[c])
                          ELSE nsqconns[c]]
    /\ lookupd_timers_' = {}
    /\ out' = Quiet
    /\ UNCHANGED <<type_, connecting_conns_, conns_, close_fn_, ready_to_publish_fn_,
                   inflight, queue, crashed, close_calls>>

\* the caller invokes Client::Close(), once: the functor is queued, not run
Close ==
    /\ ~crashed
    /\ ~closing_
    /\ closing_' = TRUE
    /\ queue' = Append(queue, "close")
    /\ out' = Quiet
    /\ UNCHANGED <<type_, connecting_conns_, conns_, lookupd_timers_, close_fn_,
                   ready_to_publish_fn_, nsqconns, inflight, crashed, close_calls>>

\* the functor of Close() calling close_fn_ itself when it finds the pool empty
RunCloseTaskFiresCallback ==
    /\ ~crashed
    /\ queue # <<>>
    /\ Head(queue) = "close"
    /\ queue' = Tail(queue)
    /\ close_calls' = IF DOMAIN connecting_conns_ = {} /\ conns_ = <<>> /\ close_fn_
                      THEN close_calls + 1 ELSE close_calls
    /\ nsqconns' = [c \in 1..Len(nsqconns) |->
                      IF c \in CloseTargets(connecting_conns_, conns_)
                      THEN NSQConnClose(nsqconns[c]) ELSE nsqconns[c]]
    /\ lookupd_timers_' = {}
    /\ out' = Quiet
    /\ UNCHANGED <<type_, closing_, connecting_conns_, conns_, close_fn_,
                   ready_to_publish_fn_, inflight, crashed>>

\* the loop runs the functor queued by Close() (lines 69-82). Close() through
\* an empty ConnPtr of connecting_conns_ dereferences null: the process
\* aborts, or the call goes by without effect.
RunCloseTask ==
    /\ ~crashed
    /\ queue # <<>>
    /\ Head(queue) = "close"
    /\ queue' = Tail(queue)
    /\ LET targets == CloseTargets(connecting_conns_, conns_)
       IN  /\ crashed' \in (IF NullConn \in targets THEN {TRUE, FALSE} ELSE {FALSE})
           /\ nsqconns' = [c \in 1..Len(nsqconns) |->
                             IF c \in targets THEN NSQConnClose(nsqconns[c])
                             ELSE nsqconns[c]]
    /\ lookupd_timers_' = {}
    /\ out' = Quiet
    /\ UNCHANGED <<type_, closing_, connecting_conns_, conns_, close_fn_,
                   ready_to_publish_fn_, inflight, close_calls>>

\* the functor OnConnection queues for a Disconnected connection (lines
\* 176-182) reads only the status of conn, which no later step changes, and
\* holds the last ConnPtr of a connection the pool has dropped: once it has
\* run the NSQConn is gone.
ReleaseChecked(cc, conns, objs, c) ==
    IF c \in Held(cc, conns) THEN objs ELSE [objs EXCEPT ![c] = FreedNSQConn]

\* NSQConn c changes its status to st and calls its connection callback,
\* Client::OnConnection (bound at line 27)
Report(c, st) ==
    /\ ~crashed
    /\ c \in 1..Len(nsqconns)
    /\ CanReport(nsqconns[c], st)
    /\ LET r == OnConnection(connecting_conns_, conns_,
                             NSQConnReport(nsqconns, c, st), c)
       IN  /\ Len(r.conns) <= MaxActive
           /\ connecting_conns_' = r.cc
           /\ conns_' = r.conns
           /\ nsqconns' = IF r.check THEN ReleaseChecked(r.cc, r.conns, r.objs, c)
                          ELSE r.objs
           /\ close_calls' = close_calls + r.closed
           /\ out' = Out(r.subs, r.ready, FALSE, {}, <<>>)
    /\ UNCHANGED <<type_, closing_, lookupd_timers_, close_fn_,
                   ready_to_publish_fn_, inflight, queue, crashed>>

ConnIds == 1..MaxConns

DirectConnect == \E addr \in Addrs : CallConnectToNSQD(addr)

DirectConnectMany == \E addrs \in SeqsUpTo(Addrs, MaxList) : CallConnectToNSQDs(addrs)

DirectLookupd == \E url \in Lookupds : CallConnectToLookupd(url)

TimerFires == \E url \in Lookupds : LookupdTimer(url)

LookupdResponse ==
    \E url \in Lookupds, resp \in Responses : HandleLoopkupdHTTPResponse(url, resp)

ReportConnected == \E c \in ConnIds : Report(c, "kConnected")

ReportReady == \E c \in ConnIds : Report(c, "kReady")

ReportConnecting == \E c \in ConnIds : Report(c, "kConnecting")

ReportDisconnected == \E c \in ConnIds : Report(c, "kDisconnected")

Next ==
    \/ DirectConnect
    \/ DirectConnectMany
    \/ DirectLookupd
    \/ TimerFires
    \/ LookupdResponse
    \/ Close
    \/ RunCloseTask
    \/ ReportConnected
    \/ ReportReady
    \/ ReportConnecting
    \/ ReportDisconnected

Spec == Init /\ [][Next]_vars

\* ------------------------------------------------------------------ claims
\* the addresses of the connections in conns_
ActiveAddrs == {nsqconns[conns_[i]].remote_addr : i \in 1..Len(conns_)}

\* addr is known to the pool: a key of connecting_conns_ or the address of a
\* connection in conns_
Known(addr) == addr \in DOMAIN connecting_conns_ \/ addr \in ActiveAddrs

\* the NSQConn objects a step creates for addr: one per ConnectToNSQD(addr)
Created(addr) ==
    {c \in (Len(nsqconns) + 1)..Len(nsqconns') : nsqconns'[c].remote_addr = addr}

\* C1: no address is in connecting_conns_ and, through a connection of
\* conns_, in the active list at the same time.
C1_MutualExclusion ==
    \A a \in Addrs : ~(a \in DOMAIN connecting_conns_ /\ a \in ActiveAddrs)

\* C2: ConnectToNSQD(addr), called directly with an address that is already
\* known, creates no NSQConn and leaves connecting_conns_ and conns_ as they
\* were, the objects they hold included.
C2_ConnectToKnownIsNoOp ==
    [][\A addr \in Addrs :
         CallConnectToNSQD(addr) /\ Known(addr)
         => UNCHANGED <<connecting_conns_, conns_, nsqconns>>]_vars

\* C3: when a connection the pool holds reports Disconnected, close_fn_ is
\* called in that step if and only if that report is the last one missing:
\* every connection the pool held before the step has then reported
\* Disconnected. So a pool of N connections that report Disconnected one
\* after the other calls close_fn_ exactly once, on the last report.
C3_CloseFiresOnLastDisconnect ==
    [][\A c \in ConnIds :
         Report(c, "kDisconnected") /\ c \in Held(connecting_conns_, conns_) /\ close_fn_
         => (close_calls' - close_calls =
               IF \A d \in Held(connecting_conns_, conns_) :
                     NSQConnReport(nsqconns, c, "kDisconnected")[d].status = "kDisconnected"
               THEN 1 ELSE 0)]_vars

\* C4: close_fn_ is called at most once in the lifetime of the client.
C4_CloseFiresAtMostOnce == close_calls <= 1

\* C5: once closing_ is set no step creates an NSQConn, that is, no step
\* calls ConnectToNSQD.
C5_NoConnectWhileClosing ==
    [][closing_ => Len(nsqconns') = Len(nsqconns)]_vars

\* C6: every connection in conns_ has status Connected or Ready.
C6_ActiveIsConnectedOrReady ==
    \A i \in 1..Len(conns_) : nsqconns[conns_[i]].status \in {"kConnected", "kReady"}

\* C7: in a consumer, a Connected report from a connection whose address is
\* a key of connecting_conns_ issues exactly one Subscribe and no
\* ready_to_publish_fn_ call, appends the connection to conns_, erases its
\* address from connecting_conns_ and leaves its status Connected.
C7_ConsumerConnectedSubscribes ==
    [][\A c \in ConnIds :
         /\ type_ = "kConsumer"
         /\ Report(c, "kConnected")
         /\ nsqconns[c].remote_addr \in DOMAIN connecting_conns_
         => /\ out'.subs = 1
            /\ out'.ready = 0
            /\ conns_' = Append(conns_, c)
            /\ connecting_conns_' = MapErase(connecting_conns_, nsqconns[c].remote_addr)
            /\ nsqconns'[c].status = "kConnected"]_vars

\* C7 witness: a consumer has just handled a Connected report: the Subscribe
\* went out and the connection is in conns_, still Connected.
C7_Witness ==
    /\ type_ = "kConsumer"
    /\ out.subs = 1
    /\ \E i \in 1..Len(conns_) :
         /\ nsqconns[conns_[i]].status = "kConnected"
         /\ nsqconns[conns_[i]].remote_addr \notin DOMAIN connecting_conns_

\* C8: in a producer with a ready callback, a Connected report from a
\* connection whose address is a key of connecting_conns_ leaves the
\* connection Ready, in conns_ and its address out of connecting_conns_,
\* calls ready_to_publish_fn_ exactly once and issues no Subscribe.
C8_ProducerConnectedIsReady ==
    [][\A c \in ConnIds :
         /\ type_ = "kProducer"
         /\ Report(c, "kConnected")
         /\ ready_to_publish_fn_
         /\ nsqconns[c].remote_addr \in DOMAIN connecting_conns_
         => /\ nsqconns'[c].status = "kReady"
            /\ conns_' = Append(conns_, c)
            /\ nsqconns[c].remote_addr \notin DOMAIN connecting_conns_'
            /\ out'.ready = 1
            /\ out'.subs = 0]_vars

\* C8 witness: a producer has just handled a Connected report: the ready
\* callback ran and the connection is in conns_, Ready.
C8_Witness ==
    /\ type_ = "kProducer"
    /\ out.ready = 1
    /\ \E i \in 1..Len(conns_) :
         /\ nsqconns[conns_[i]].status = "kReady"
         /\ nsqconns[conns_[i]].remote_addr \notin DOMAIN connecting_conns_

\* C9: a step that handles a lookupd response with http code 200 and
\* status_code 200 (the only steps that set out.polled) calls ConnectToNSQD
\* exactly once for every listed address that was not known before the
\* response, and not at all for any other address, however often an address
\* is listed.
C9_DiscoveryReconciles ==
    [][out'.polled
       => \A a \in Addrs :
            /\ Cardinality(Created(a)) =
                 IF a \in out'.listed /\ ~Known(a) THEN 1 ELSE 0
            /\ Count(out'.connects, a) = Cardinality(Created(a))]_vars

\* C9 witness: the producers loop has just connected to one address and
\* skipped another, which the pool knows through a connection in conns_.
C9_Witness ==
    /\ out.polled
    /\ Len(out.connects) = 1
    /\ \E a \in ActiveAddrs : a \notin Range(out.connects)
    /\ \A a \in Range(out.connects) :
         /\ a \in DOMAIN connecting_conns_
         /\ connecting_conns_[a] = Len(nsqconns)

\* C10: a step that handles a lookupd response, of any kind (the only steps
\* that take a URL out of inflight), leaves conns_ as it was, leaves every
\* entry of connecting_conns_ in place with the object it held, and changes
\* no existing NSQConn: it calls Close() on none.
C10_DiscoveryOnlyAdds ==
    [][inflight' # inflight /\ inflight' \subseteq inflight
       => /\ conns_' = conns_
          /\ \A a \in DOMAIN connecting_conns_ :
               /\ a \in DOMAIN connecting_conns_'
               /\ connecting_conns_'[a] = connecting_conns_[a]
          /\ \A c \in 1..Len(nsqconns) : nsqconns'[c] = nsqconns[c]]_vars

\* C10 witness: the producers loop has just run and connected to nothing,
\* with one connection in conns_ and another in connecting_conns_.
C10_Witness ==
    /\ out.polled
    /\ out.connects = <<>>
    /\ conns_ # <<>>
    /\ \E a \in DOMAIN connecting_conns_ :
         /\ connecting_conns_[a] # NullConn
         /\ nsqconns[connecting_conns_[a]].status = "kConnecting"

\* the pool holds no connection
PoolEmpty == DOMAIN connecting_conns_ = {} /\ conns_ = <<>>

\* C11: close_fn_ is called only by a step that handles a Disconnected report
\* and leaves connecting_conns_ and conns_ both empty: never by Close() or by
\* the functor it queues, whether the pool is empty or not.
C11_CloseNeverFiresCallback ==
    [][/\ (Close \/ RunCloseTask) => close_calls' = close_calls
       /\ close_calls' # close_calls
          => /\ \E c \in ConnIds : Report(c, "kDisconnected")
             /\ PoolEmpty']_vars

\* C11 witness: Close() was called on a pool that never held a connection and
\* its functor has run: close_fn_ has not been called.
C11_Witness ==
    /\ closing_
    /\ queue = <<>>
    /\ nsqconns = <<>>
    /\ PoolEmpty
    /\ close_calls = 0

\* the body of a lookupd response rapidjson cannot read as the expected envelope
Malformed == [http_code |-> 200, wellformed |-> FALSE, status_code |-> 200,
              producers |-> <<>>]

\* C12: handling a malformed lookupd response does not abort the process,
\* creates no NSQConn and leaves connecting_conns_, conns_ and
\* lookupd_timers_ as they were.
C12_MalformedIsFailedPoll ==
    [][\A url \in Lookupds :
         HandleLoopkupdHTTPResponse(url, Malformed)
         => /\ ~crashed'
            /\ UNCHANGED <<connecting_conns_, conns_, nsqconns, lookupd_timers_>>]_vars

\* C13: the Close() call itself requests close on no connection and leaves
\* connecting_conns_ and conns_ as they were: it queues the functor. A close
\* request reaches a connection only in a step of the queued functor, which
\* handles no status report.
C13_CloseDefersTeardown ==
    [][/\ Close => /\ UNCHANGED <<connecting_conns_, conns_, nsqconns>>
                   /\ queue' = Append(queue, "close")
       /\ (\E c \in 1..Len(nsqconns) : nsqconns'[c].closing /\ ~nsqconns[c].closing)
          => /\ RunCloseTask
             /\ UNCHANGED <<connecting_conns_, conns_, close_calls>>]_vars

\* C13 witness: Close() has returned with its functor still queued: the pool
\* holds a connection and no connection has been asked to close.
C13_Witness ==
    /\ closing_
    /\ queue = <<"close">>
    /\ conns_ # <<>>
    /\ \A c \in 1..Len(nsqconns) : ~nsqconns[c].closing

\* C14: the step in which Close() is called leaves no lookupd timer, and once
\* closing_ is set no timer fires to send a lookupd query.
C14_CloseCancelsTimers ==
    [][/\ Close => lookupd_timers_' = {}
       /\ closing_ => \A url \in Lookupds : ~LookupdTimer(url)]_vars

\* C15: in a consumer, a Ready report from a connection that is in conns_
\* leaves conns_ and connecting_conns_ as they were, so that the connection
\* is in conns_ once, and issues no Subscribe and no callback.
C15_ConsumerReadyIsNoOp ==
    [][\A c \in ConnIds :
         /\ type_ = "kConsumer"
         /\ Report(c, "kReady")
         /\ c \in Range(conns_)
         => /\ conns_' = conns_
            /\ connecting_conns_' = connecting_conns_
            /\ Count(conns_', c) = 1
            /\ out'.subs = 0
            /\ out'.ready = 0
            /\ close_calls' = close_calls]_vars

\* C16: a Connecting report from a connection that is in conns_ takes the
\* connection out of conns_ and puts that object under its address in
\* connecting_conns_, unless connecting_conns_ holds another object for the
\* address: then neither collection changes.
C16_ConnectingDemotes ==
    [][\A c \in ConnIds :
         /\ Report(c, "kConnecting")
         /\ c \in Range(conns_)
         => LET addr == nsqconns[c].remote_addr
            IN  IF addr \in DOMAIN connecting_conns_
                   /\ connecting_conns_[addr] \notin {c, NullConn}
                THEN UNCHANGED <<connecting_conns_, conns_>>
                ELSE /\ c \notin Range(conns_')
                     /\ addr \in DOMAIN connecting_conns_'
                     /\ connecting_conns_'[addr] = c]_vars

\* C17: after a Disconnected report from a connection has been handled, the
\* address of that connection is no key of connecting_conns_ and the address
\* of no connection in conns_.
C17_DisconnectedRemovesAddress ==
    [][\A c \in ConnIds :
         Report(c, "kDisconnected")
         => LET addr == nsqconns[c].remote_addr
            IN  /\ addr \notin DOMAIN connecting_conns_'
                /\ \A i \in 1..Len(conns_') :
                     /\ conns_'[i] # c
                     /\ nsqconns'[conns_'[i]].remote_addr # addr]_vars

\* C18: once closing_ is set no step issues a Subscribe or calls
\* ready_to_publish_fn_.
C18_ClosingSuppressesSideEffects ==
    [][closing_ => out'.subs = 0 /\ out'.ready = 0]_vars

\* C20: every key of connecting_conns_ maps to an NSQConn, never to an empty
\* ConnPtr.
C20_NoEmptySlot ==
    \A a \in DOMAIN connecting_conns_ : connecting_conns_[a] # NullConn

\* a connection that was asked to close reports Disconnected
DrainReport(c) ==
    /\ c \in 1..Len(nsqconns)
    /\ nsqconns[c].closing
    /\ Report(c, "kDisconnected")

\* the loop runs every queued functor, every response in flight is delivered
\* and every connection asked to close reports Disconnected
FairSpec ==
    /\ Spec
    /\ WF_vars(RunCloseTask)
    /\ WF_vars(LookupdResponse)
    /\ \A c \in ConnIds : WF_vars(DrainReport(c))

\* C19: when Close() has been called on a pool that holds a connection, the
\* pool eventually holds none and close_fn_ has been called.
C19_DrainCompletes ==
    (closing_ /\ queue # <<>> /\ ~PoolEmpty) ~> (PoolEmpty /\ close_calls > 0)

====
